---- MODULE Spec2Model ----
(***************************************************************************)
(* The expression grammar of src/expr.rs: a nom recursive-descent parser   *)
(* from source text to an Expr tree over Gaussian-integer literals.        *)
(*                                                                         *)
(* Text is a sequence of one-character strings; a cursor (nom's Span) is   *)
(* the pair (s, p): the whole text s and the 1-based index p of the next   *)
(* character.  A parser returns Ok(p', value), Error (nom's Err::Error, an *)
(* ordinary backtracking failure) or Overflow (unbounded recursion: the    *)
(* host call stack is exhausted, no alternative is tried afterwards).      *)
(***************************************************************************)
EXTENDS Integers, Sequences, FiniteSets, TLC

VARIABLES input, pc, entry, result

vars == <<input, pc, entry, result>>

\* ------------------------------------------------------------ characters

DIGITS == <<"0", "1", "2", "3", "4", "5", "6", "7", "8", "9">>

Digit == {DIGITS[k] : k \in 1..10}

Lower ==
    {"a", "b", "c", "d", "e", "f", "g", "h", "i", "j", "k", "l", "m",
     "n", "o", "p", "q", "r", "s", "t", "u", "v", "w", "x", "y", "z"}

Upper ==
    {"A", "B", "C", "D", "E", "F", "G", "H", "I", "J", "K", "L", "M",
     "N", "O", "P", "Q", "R", "S", "T", "U", "V", "W", "X", "Y", "Z"}

Alpha == Lower \cup Upper

Alphanumeric == Alpha \cup Digit

Space == {" ", "\t", "\r", "\n"}

\* the characters from p to the end of s
Rest(s, p) == SubSeq(s, p, Len(s))

\* the characters a parser that went from p to q has matched
Slice(s, p, q) == SubSeq(s, p, q - 1)

\* ------------------------------------------------------------ results

Ok(p, v) == [st |-> "Ok", pos |-> p, val |-> v]

Error == [st |-> "Error"]

Overflow == [st |-> "Overflow"]

IsOk(r) == r.st = "Ok"

\* ------------------------------------------------------------ nom leaves

\* tag(t): the text at p starts with t
tag(s, p, t) ==
    IF p + Len(t) - 1 <= Len(s) /\ SubSeq(s, p, p + Len(t) - 1) = t
    THEN Ok(p + Len(t), t)
    ELSE Error

\* the end of the longest run of characters of set cs that starts at p
RECURSIVE RunEnd(_, _, _)
RunEnd(s, p, cs) ==
    IF p <= Len(s) /\ s[p] \in cs THEN RunEnd(s, p + 1, cs) ELSE p

multispace0(s, p) == RunEnd(s, p, Space)

alpha1(s, p) ==
    LET q == RunEnd(s, p, Alpha) IN IF q > p THEN Ok(q, Slice(s, p, q)) ELSE Error

alphanumeric1(s, p) ==
    LET q == RunEnd(s, p, Alphanumeric)
    IN  IF q > p THEN Ok(q, Slice(s, p, q)) ELSE Error

\* ------------------------------------------------------------ i64

\* a signed 64-bit value n >= 0 is held as <<a, b, c>>, n = (a * Limb + b) * Limb + c
Limb == 100000000

I64_MAX == <<922, 33720368, 54775807>>

I64(n) == <<0, 0, n>>

I64Le(x, y) ==
    \/ x[1] < y[1]
    \/ x[1] = y[1] /\ x[2] < y[2]
    \/ x[1] = y[1] /\ x[2] = y[2] /\ x[3] <= y[3]

\* checked_mul(10) then checked_add(d): None when the result exceeds i64::MAX
None == <<>>

CheckedMulAdd(acc, d) ==
    LET c  == acc[3] * 10 + d
        b  == acc[2] * 10 + (c \div Limb)
        a  == acc[1] * 10 + (b \div Limb)
        r  == <<a, b % Limb, c % Limb>>
    IN  IF I64Le(r, I64_MAX) THEN r ELSE None

\* str::parse::<i64> on text that starts with a digit: every character must be
\* a digit and the value must fit
RECURSIVE FromStrDigits(_, _, _)
FromStrDigits(t, k, acc) ==
    IF k > Len(t) THEN Ok(k, acc)
    ELSE IF t[k] \notin Digit THEN Error
    ELSE LET d == (CHOOSE j \in 1..10 : DIGITS[j] = t[k]) - 1
             n == CheckedMulAdd(acc, d)
         IN  IF n = None THEN Error ELSE FromStrDigits(t, k + 1, n)

\* grouping underscores skipped before conversion
parse_i64_grouped(t) ==
    LET u == SelectSeq(t, LAMBDA ch : ch # "_")
    IN  IF u = <<>> THEN Error ELSE FromStrDigits(u, 1, I64(0))

parse_i64(t) ==
    IF t = <<>> THEN Error ELSE FromStrDigits(t, 1, I64(0))

\* ------------------------------------------------------------ the AST

ComplexInt(re, im) == [re |-> re, im |-> im]

Value(c) == [tag |-> "Value", c |-> c]

Id(name) == [tag |-> "Id", name |-> name]

BinOp(op, l, r) == [tag |-> "BinOp", op |-> op, l |-> l, r |-> r]

UnOp(op, e) == [tag |-> "UnOp", op |-> op, e |-> e]

IfElse(c, t, e) == [tag |-> "IfElse", cond |-> c, then |-> t, else |-> e]

RESERVED_WORDS ==
    << <<"i", "f">>,
       <<"e", "l", "s", "e">>,
       <<"t", "h", "e", "n">>,
       <<"i">>,
       <<"l", "e", "t">>,
       <<"p", "r", "i", "n", "t">>,
       <<"p", "r", "i", "n", "t", "l", "n">>,
       <<"w", "h", "i", "l", "e">>,
       <<"f", "n">>,
       <<"m", "u", "t">>,
       <<"b", "r", "e", "a", "k">>,
       <<"c", "o", "n", "t", "i", "n", "u", "e">>,
       <<"m", "a", "t", "r", "i", "x">>,
       <<"r", "e", "t", "u", "r", "n">>,
       <<"p", "i">>,
       <<"t", "a", "u">> >>

\* ------------------------------------------------------------ literals

\* many0(tag("_"))
underscores(s, p) == RunEnd(s, p, {"_"})

\* many1(terminated(one_of("0123456789"), many0(tag("_")))), recognized
RECURSIVE decimal_many(_, _)
decimal_many(s, p) ==
    IF p <= Len(s) /\ s[p] \in Digit
    THEN decimal_many(s, underscores(s, p + 1))
    ELSE p

decimal(s, p) ==
    LET q == decimal_many(s, p) IN IF q > p THEN Ok(q, Slice(s, p, q)) ELSE Error

real(s, p) ==
    LET d == decimal(s, p)
    IN  IF ~IsOk(d) THEN Error
        ELSE LET n == parse_i64(d.val)
             IN  IF IsOk(n) THEN Ok(d.pos, Value(ComplexInt(n.val, I64(0))))
                 ELSE Error

imag(s, p) ==
    LET d == decimal(s, p)
        q == IF IsOk(d) THEN d.pos ELSE p
        t == Slice(s, p, q)
        i == tag(s, q, <<"i">>)
    IN  IF ~IsOk(i) THEN Error
        ELSE IF t = <<>> THEN Ok(i.pos, Value(ComplexInt(I64(0), I64(1))))
        ELSE LET n == parse_i64(t)
             IN  IF IsOk(n) THEN Ok(i.pos, Value(ComplexInt(I64(0), n.val)))
                 ELSE Error

\* the integer form tried first
value_real_first(s, p) ==
    LET r == real(s, p) IN IF IsOk(r) THEN r ELSE imag(s, p)

value(s, p) ==
    LET r == imag(s, p) IN IF IsOk(r) THEN r ELSE real(s, p)

\* ------------------------------------------------------------ identifiers

\* many0(alt((alphanumeric1, tag("_"), tag("'"))))
RECURSIVE identifier_many(_, _)
identifier_many(s, p) ==
    LET a == alphanumeric1(s, p)
    IN  IF IsOk(a) THEN identifier_many(s, a.pos)
        ELSE IF IsOk(tag(s, p, <<"_">>)) THEN identifier_many(s, p + 1)
        ELSE IF IsOk(tag(s, p, <<"'">>)) THEN identifier_many(s, p + 1)
        ELSE p

\* the name taken without the verify step
identifier_unverified(s, p) ==
    LET a == alpha1(s, p)
        h == IF IsOk(a) THEN a ELSE tag(s, p, <<"_">>)
    IN  IF ~IsOk(h) THEN Error
        ELSE LET q == identifier_many(s, h.pos) IN Ok(q, Slice(s, p, q))

identifier(s, p) ==
    LET a == alpha1(s, p)
        h == IF IsOk(a) THEN a ELSE tag(s, p, <<"_">>)
    IN  IF ~IsOk(h) THEN Error
        ELSE LET q  == identifier_many(s, h.pos)
                 id == Slice(s, p, q)
             IN  IF \E k \in 1..Len(RESERVED_WORDS) : RESERVED_WORDS[k] = id
                 THEN Error
                 ELSE Ok(q, id)

identifier_expr(s, p) ==
    LET r == identifier(s, p) IN IF IsOk(r) THEN Ok(r.pos, Id(r.val)) ELSE Error

\* ------------------------------------------------------------ the grammar

\* The grammar is recursive through expression (from if_else, modulus and
\* parens) and through factor (from negate, and from term): Call(f, s, p, act)
\* is a call of one of the two at position p.  act is the set of those of the
\* two that are on the call stack and were entered at this same position p:
\* calling one of them again here is a call with the very arguments of one
\* that has not returned, which never returns.
RECURSIVE Call(_, _, _, _)

\* the functions still entered at the position when f, entered at p with act,
\* makes a call at q
At(act, p, q) == IF q = p THEN act ELSE {}

\* ws(inner) = delimited(multispace0, inner, multispace0): ws_before is the
\* position inner runs at, ws_after the result once the trailing blanks are
\* skipped
ws_before(s, p) == multispace0(s, p)

ws_after(s, r) == IF r.st = "Ok" THEN Ok(multispace0(s, r.pos), r.val) ELSE r

\* the else branch parsed as a single factor
if_else_factor(s, p, act) ==
    LET k1     == tag(s, p, <<"i", "f">>)
        cond   == Call("expression", s, k1.pos, At(act, p, k1.pos))
        k2     == tag(s, cond.pos, <<"t", "h", "e", "n">>)
        e_if   == Call("expression", s, k2.pos, At(act, p, k2.pos))
        k3     == tag(s, e_if.pos, <<"e", "l", "s", "e">>)
        e_else == Call("factor", s, k3.pos, At(act, p, k3.pos))
    IN  CASE k1.st # "Ok"     -> k1
          [] cond.st # "Ok"   -> cond
          [] k2.st # "Ok"     -> k2
          [] e_if.st # "Ok"   -> e_if
          [] k3.st # "Ok"     -> k3
          [] e_else.st # "Ok" -> e_else
          [] OTHER -> Ok(e_else.pos, IfElse(cond.val, e_if.val, e_else.val))

\* preceded(tag("if"), separated_pair(separated_pair(expression, tag("then"),
\* expression), tag("else"), expression)): the first part that fails decides
if_else(s, p, act) ==
    LET k1     == tag(s, p, <<"i", "f">>)
        cond   == Call("expression", s, k1.pos, At(act, p, k1.pos))
        k2     == tag(s, cond.pos, <<"t", "h", "e", "n">>)
        e_if   == Call("expression", s, k2.pos, At(act, p, k2.pos))
        k3     == tag(s, e_if.pos, <<"e", "l", "s", "e">>)
        e_else == Call("expression", s, k3.pos, At(act, p, k3.pos))
    IN  CASE k1.st # "Ok"     -> k1
          [] cond.st # "Ok"   -> cond
          [] k2.st # "Ok"     -> k2
          [] e_if.st # "Ok"   -> e_if
          [] k3.st # "Ok"     -> k3
          [] e_else.st # "Ok" -> e_else
          [] OTHER -> Ok(e_else.pos, IfElse(cond.val, e_if.val, e_else.val))

\* the '-' not taken from the input before the factor is parsed
negate_peek(s, p, act) ==
    LET m == tag(s, p, <<"-">>)
        e == Call("factor", s, p, act)
    IN  CASE m.st # "Ok" -> m
          [] e.st # "Ok" -> e
          [] OTHER       -> Ok(e.pos, UnOp("Negate", e.val))

negate(s, p, act) ==
    LET m == tag(s, p, <<"-">>)
        e == Call("factor", s, m.pos, At(act, p, m.pos))
    IN  CASE m.st # "Ok" -> m
          [] e.st # "Ok" -> e
          [] OTHER       -> Ok(e.pos, UnOp("Negate", e.val))

\* fold_many0(tag("^"), init, |acc, _| UnOp(Negate, acc))
RECURSIVE conj_fold(_, _, _)
conj_fold(s, p, acc) ==
    IF tag(s, p, <<"^">>).st = "Ok"
    THEN conj_fold(s, p + 1, UnOp("Negate", acc))
    ELSE Ok(p, acc)

modulus(s, p, act) ==
    LET b1 == tag(s, p, <<"|">>)
        e  == Call("expression", s, b1.pos, At(act, p, b1.pos))
        b2 == tag(s, e.pos, <<"|">>)
    IN  CASE b1.st # "Ok" -> b1
          [] e.st # "Ok"  -> e
          [] b2.st # "Ok" -> b2
          [] OTHER        -> Ok(b2.pos, UnOp("Modulus", e.val))

parens(s, p, act) ==
    LET q  == multispace0(s, p)
        b1 == tag(s, q, <<"(">>)
        e  == Call("expression", s, b1.pos, At(act, p, b1.pos))
        b2 == tag(s, e.pos, <<")">>)
    IN  CASE b1.st # "Ok" -> b1
          [] e.st # "Ok"  -> e
          [] b2.st # "Ok" -> b2
          [] OTHER        -> Ok(multispace0(s, b2.pos), e.val)

\* alt: the first alternative that does not end in Error decides
basic_factor(s, p, act) ==
    LET q  == ws_before(s, p)
        a1 == identifier_expr(s, q)
        a2 == if_else(s, q, At(act, p, q))
        a3 == value(s, q)
        a4 == modulus(s, q, At(act, p, q))
        a5 == negate(s, q, At(act, p, q))
        a6 == parens(s, p, act)
    IN  CASE a1.st # "Error" -> ws_after(s, a1)
          [] a2.st # "Error" -> ws_after(s, a2)
          [] a3.st # "Error" -> ws_after(s, a3)
          [] a4.st # "Error" -> ws_after(s, a4)
          [] a5.st # "Error" -> ws_after(s, a5)
          [] OTHER           -> a6

conj(s, p, act) ==
    LET init == basic_factor(s, p, act)
    IN  IF init.st # "Ok" THEN init ELSE conj_fold(s, init.pos, init.val)

factor(s, p, act) ==
    LET q  == ws_before(s, p)
        a1 == conj(s, q, At(act, p, q))
        a2 == basic_factor(s, p, act)
    IN  CASE a1.st # "Error" -> ws_after(s, a1)
          [] OTHER           -> a2

\* fold_many0(pair(alt((char('*'), char('/'), char('%'))), factor), init, ...):
\* a pair that fails ends the fold where the pair began; a pair that matches
\* without consuming is nom's Many0 error
RECURSIVE term_fold(_, _, _)

\* '+' taken at the multiplicative level as well
term_fold_with_plus(s, p, acc) ==
    LET v  == Call("factor", s, p + 1, {})
        op == CASE s[p] = "*" -> "Times"
                [] s[p] = "/" -> "Divide"
                [] s[p] = "+" -> "Plus"
                [] OTHER      -> "Remainder"
    IN  CASE ~(p <= Len(s) /\ s[p] \in {"*", "/", "%", "+"}) -> Ok(p, acc)
          [] v.st = "Error" -> Ok(p, acc)
          [] v.st # "Ok"    -> v
          [] v.pos = p      -> Error
          [] OTHER          -> term_fold(s, v.pos, BinOp(op, acc, v.val))

term_fold(s, p, acc) ==
    LET v  == Call("factor", s, p + 1, {})
        op == CASE s[p] = "*" -> "Times"
                [] s[p] = "/" -> "Divide"
                [] OTHER      -> "Remainder"
    IN  CASE ~(p <= Len(s) /\ s[p] \in {"*", "/", "%"}) -> Ok(p, acc)
          [] v.st = "Error" -> Ok(p, acc)
          [] v.st # "Ok"    -> v
          [] v.pos = p      -> Error
          [] OTHER          -> term_fold(s, v.pos, BinOp(op, acc, v.val))

term(s, p, act) ==
    LET init == Call("factor", s, p, act)
    IN  IF init.st # "Ok" THEN init ELSE term_fold(s, init.pos, init.val)

RECURSIVE expr_fold(_, _, _)

\* a pair whose operand fails still takes its operator
expr_fold_keeps_operator(s, p, acc) ==
    LET v  == term(s, p + 1, {})
        op == CASE s[p] = "+" -> "Plus"
                [] OTHER      -> "Minus"
    IN  CASE ~(p <= Len(s) /\ s[p] \in {"+", "-"}) -> Ok(p, acc)
          [] v.st = "Error" -> Ok(p + 1, acc)
          [] v.st # "Ok"    -> v
          [] v.pos = p      -> Error
          [] OTHER          -> expr_fold(s, v.pos, BinOp(op, acc, v.val))

\* the pairs folded from the right: the rest of the chain is the right operand
expr_fold_right(s, p, acc) ==
    LET v    == term(s, p + 1, {})
        op   == CASE s[p] = "+" -> "Plus"
                  [] OTHER      -> "Minus"
        rest == expr_fold(s, v.pos, v.val)
    IN  CASE ~(p <= Len(s) /\ s[p] \in {"+", "-"}) -> Ok(p, acc)
          [] v.st = "Error"  -> Ok(p, acc)
          [] v.st # "Ok"     -> v
          [] v.pos = p       -> Error
          [] rest.st # "Ok"  -> rest
          [] OTHER           -> Ok(rest.pos, BinOp(op, acc, rest.val))

\* fold_many0(pair(alt((char('+'), char('-'))), term), init, ...)
expr_fold(s, p, acc) ==
    LET v  == term(s, p + 1, {})
        op == CASE s[p] = "+" -> "Plus"
                [] OTHER      -> "Minus"
    IN  CASE ~(p <= Len(s) /\ s[p] \in {"+", "-"}) -> Ok(p, acc)
          [] v.st = "Error" -> Ok(p, acc)
          [] v.st # "Ok"    -> v
          [] v.pos = p      -> Error
          [] OTHER          -> expr_fold(s, v.pos, BinOp(op, acc, v.val))

expr(s, p, act) ==
    LET init == term(s, p, act)
    IN  IF init.st # "Ok" THEN init ELSE expr_fold(s, init.pos, init.val)

RECURSIVE equality_fold(_, _, _)
equality_fold(s, p, acc) ==
    LET t1 == tag(s, p, <<"=", "=">>)
        t  == IF t1.st = "Ok" THEN t1 ELSE tag(s, p, <<"!", "=">>)
        v  == expr(s, t.pos, {})
        op == CASE t.val = <<"=", "=">> -> "Equals"
                [] OTHER                -> "NotEquals"
    IN  CASE t.st # "Ok"    -> Ok(p, acc)
          [] v.st = "Error" -> Ok(p, acc)
          [] v.st # "Ok"    -> v
          [] v.pos = p      -> Error
          [] OTHER          -> equality_fold(s, v.pos, BinOp(op, acc, v.val))

equality(s, p, act) ==
    LET init == expr(s, p, act)
    IN  IF init.st # "Ok" THEN init ELSE equality_fold(s, init.pos, init.val)

expression(s, p, act) ==
    LET q == ws_before(s, p)
        r == equality(s, q, At(act, p, q))
    IN  IF r.st = "Ok" THEN ws_after(s, r) ELSE r

Call(f, s, p, act) ==
    CASE f \in act        -> Overflow
      [] f = "factor"     -> factor(s, p, act \cup {f})
      [] f = "expression" -> expression(s, p, act \cup {f})

\* ------------------------------------------------------------ callers

\* every text made of at most n pieces of P, one after the other
RECURSIVE Strs(_, _)
Strs(P, n) ==
    IF n = 0 THEN {<<>>}
    ELSE LET shorter == Strs(P, n - 1)
         IN  shorter \cup {x \o y : x \in shorter, y \in P}

\* a caller hands a text to one of the two public parsers, once
CallExpression ==
    /\ pc = "ready"
    /\ result' = Call("expression", input, 1, {})
    /\ entry' = "expression"
    /\ pc' = "done"
    /\ UNCHANGED input

CallIdentifier ==
    /\ pc = "ready"
    /\ result' = identifier(input, 1)
    /\ entry' = "identifier"
    /\ pc' = "done"
    /\ UNCHANGED input

Next == CallExpression \/ CallIdentifier

Start(inputs) ==
    /\ input \in inputs
    /\ pc = "ready"
    /\ entry = "none"
    /\ result = [st |-> "None"]

Parsed == pc = "done" /\ entry = "expression"

\* ------------------------------------------------------------ reading aids

\* the decimal digits of x < Limb, exactly n of them, most significant first
RECURSIVE Padded(_, _)
Padded(x, n) ==
    IF n = 0 THEN <<>> ELSE Append(Padded(x \div 10, n - 1), DIGITS[(x % 10) + 1])

RECURSIVE StripZeros(_)
StripZeros(t) ==
    IF Len(t) > 1 /\ t[1] = "0" THEN StripZeros(Tail(t)) ELSE t

\* how an i64 prints
ToDecimal(n) == StripZeros(Padded(n[1], 3) \o Padded(n[2], 8) \o Padded(n[3], 8))

AllIn(t, cs) == \A k \in 1..Len(t) : t[k] \in cs

Front(t) == SubSeq(t, 1, Len(t) - 1)

Last(t) == t[Len(t)]

\* 2^63 - 1 as it is written
MaxDigits ==
    <<"9", "2", "2", "3", "3", "7", "2", "0", "3", "6",
      "8", "5", "4", "7", "7", "5", "8", "0", "7">>

\* t and u are digit texts of one length: t is at most u, digit by digit
LexLe(t, u) ==
    \/ t = u
    \/ \E k \in 1..Len(t) :
          /\ SubSeq(t, 1, k - 1) = SubSeq(u, 1, k - 1)
          /\ \E a, b \in 1..10 : a < b /\ DIGITS[a] = t[k] /\ DIGITS[b] = u[k]

\* the number a digit text writes is at most 2^63 - 1
FitsI64(t) ==
    LET z == StripZeros(t)
    IN  \/ Len(z) < Len(MaxDigits)
        \/ Len(z) = Len(MaxDigits) /\ LexLe(z, MaxDigits)

\* ------------------------------------------------------------ literal inputs

MaxLit == 2

LitChars == {<<"0">>, <<"7">>, <<"8">>, <<"_">>}

\* the first 18 digits of 2^63 - 1
Big18 == SubSeq(MaxDigits, 1, 18)

LitInputs ==
    {pre \o body \o suf : pre \in {<<>>, Big18},
                          body \in Strs(LitChars, MaxLit),
                          suf \in {<<>>, <<"i">>}}

InitLit == Start(LitInputs)

SpecLit == InitLit /\ [][Next]_vars

\* C3: a digit run without separators that fits in an i64 parses to
\* Value(n, 0); followed by 'i' it parses to Value(0, n) with the 'i' consumed;
\* a bare 'i' parses to Value(0, 1).
LiteralsParse ==
    Parsed =>
      /\ (input # <<>> /\ AllIn(input, Digit) /\ FitsI64(input)) =>
            /\ IsOk(result)
            /\ result.pos = Len(input) + 1
            /\ result.val.tag = "Value"
            /\ ToDecimal(result.val.c.re) = StripZeros(input)
            /\ result.val.c.im = I64(0)
      /\ (Len(input) > 1 /\ Last(input) = "i" /\ AllIn(Front(input), Digit)
            /\ FitsI64(Front(input))) =>
            /\ IsOk(result)
            /\ result.pos = Len(input) + 1
            /\ result.val.tag = "Value"
            /\ result.val.c.re = I64(0)
            /\ ToDecimal(result.val.c.im) = StripZeros(Front(input))
      /\ input = <<"i">> =>
            result = Ok(2, Value(ComplexInt(I64(0), I64(1))))

\* the largest i64, imaginary, has been parsed
LiteralsParseWitness ==
    /\ Parsed
    /\ input = MaxDigits \o <<"i">>
    /\ IsOk(result)
    /\ result.val.c.im = I64_MAX

\* a digit run, separators allowed, that str::parse::<i64> cannot convert
BadDigitRun(t) ==
    /\ t # <<>>
    /\ t[1] \in Digit
    /\ AllIn(t, Digit \cup {"_"})
    /\ ("_" \in {t[k] : k \in 1..Len(t)} \/ ~FitsI64(t))

\* C9: a digit run that holds an underscore or exceeds 2^63 - 1, with or
\* without a trailing 'i', never becomes a Value: the parse fails with an
\* ordinary error.
ConversionFailureIsError ==
    Parsed =>
      /\ BadDigitRun(input) => result.st = "Error"
      /\ (Len(input) > 1 /\ Last(input) = "i" /\ BadDigitRun(Front(input))) =>
            result.st = "Error"

\* both an overflowing run and a run with a separator, each before 'i', failed
ConversionFailureWitness ==
    /\ Parsed
    /\ input \in {Big18 \o <<"8", "i">>, <<"7", "_", "i">>}
    /\ result.st = "Error"

\* ------------------------------------------------------------ operator chains

\* the token an operator tag is written with
OpText(op) ==
    CASE op = "Times"     -> <<"*">>
      [] op = "Divide"    -> <<"/">>
      [] op = "Remainder" -> <<"%">>
      [] op = "Plus"      -> <<"+">>
      [] op = "Minus"     -> <<"-">>
      [] op = "Equals"    -> <<"=", "=">>
      [] op = "NotEquals" -> <<"!", "=">>

\* the binding level of a node: 1 equality, 2 additive, 3 multiplicative,
\* 4 anything that is not a binary node
Level(e) ==
    IF e.tag # "BinOp" THEN 4
    ELSE IF e.op \in {"Equals", "NotEquals"} THEN 1
    ELSE IF e.op \in {"Plus", "Minus"} THEN 2
    ELSE 3

\* a tree of binary nodes over literals and names, written in order with no
\* blanks and no parentheses
RECURSIVE Show(_)
Show(e) ==
    CASE e.tag = "BinOp" -> Show(e.l) \o OpText(e.op) \o Show(e.r)
      [] e.tag = "Id"    -> e.name
      [] e.tag = "Value" ->
            IF e.c.im = I64(0) THEN ToDecimal(e.c.re)
            ELSE ToDecimal(e.c.im) \o <<"i">>
      [] e.tag = "UnOp" /\ e.op = "Negate" -> <<"-">> \o Show(e.e)
      [] OTHER -> <<"?">>

\* every right operand is a leaf: the tree leans strictly to the left
RECURSIVE LeftLeaning(_)
LeftLeaning(e) ==
    e.tag = "BinOp" => (e.r.tag # "BinOp" /\ LeftLeaning(e.l))

MaxOps == 3

Operands == {<<"1">>, <<"a">>}

MulOps == {<<"*">>, <<"/">>, <<"%">>}

AddOps == {<<"+">>, <<"-">>}

EqOps == {<<"=", "=">>, <<"!", "=">>}

\* operand (op operand)^k for k <= n, the operators taken from ops
RECURSIVE Chains(_, _, _)
Chains(xs, ops, n) ==
    IF n = 0 THEN xs
    ELSE LET shorter == Chains(xs, ops, n - 1)
         IN  shorter \cup {c \o o \o x : c \in shorter, o \in ops, x \in xs}

ChainInputs ==
    Chains(Operands, MulOps, MaxOps) \cup Chains(Operands, AddOps, MaxOps)
        \cup Chains(Operands, EqOps, MaxOps)

InitChain == Start(ChainInputs)

SpecChain == InitChain /\ [][Next]_vars

\* C1: a chain of operators of one level parses, whole, to the strictly
\* left-leaning tree of its operands in order, each token as its own tag.
ChainsFoldLeft ==
    Parsed =>
      /\ IsOk(result)
      /\ result.pos = Len(input) + 1
      /\ Show(result.val) = input
      /\ LeftLeaning(result.val)

\* a chain of three subtractions has been folded
ChainsFoldLeftWitness ==
    /\ Parsed
    /\ input = <<"1", "-", "a", "-", "1", "-", "a">>
    /\ IsOk(result)
    /\ result.val.l.l.l = Value(ComplexInt(I64(1), I64(0)))

\* ------------------------------------------------------------ precedence

MaxPrecOps == 3

PrecOperands == {<<"1">>, <<"-", "a">>}

PrecOps == {<<"+">>, <<"-">>, <<"*">>, <<"%">>, <<"=", "=">>}

MaxPrecPieces == 4

PrecPieces ==
    {<<"1">>, <<"a">>, <<"+">>, <<"-">>, <<"*">>, <<"%">>, <<"=", "=">>,
     <<"^">>, <<" ">>}

\* well-formed chains that mix the levels, and every short text of the tokens
PrecInputs ==
    Chains(PrecOperands, PrecOps, MaxPrecOps) \cup Strs(PrecPieces, MaxPrecPieces)

InitPrec == Start(PrecInputs)

SpecPrec == InitPrec /\ [][Next]_vars

\* no node binds looser than the node it is an operand of, and a Negate holds
\* no binary node
RECURSIVE Nested(_)
Nested(e) ==
    CASE e.tag = "BinOp" ->
            /\ Level(e.l) >= Level(e)
            /\ Level(e.r) >= Level(e)
            /\ Nested(e.l)
            /\ Nested(e.r)
      [] e.tag = "UnOp" -> Level(e.e) = 4 /\ Nested(e.e)
      [] OTHER -> TRUE

\* C2: equality < additive < multiplicative < unary negate: without
\* parentheses, bars or conditionals no operand of a multiplicative node is an
\* additive or equality node, no operand of an additive node is an equality
\* node, and the operand of a leading '-' is never a binary node; a text
\* without blanks or '^' that is consumed whole is its tree written in order.
PrecedenceNesting ==
    (Parsed /\ IsOk(result)) =>
      /\ Nested(result.val)
      /\ (result.pos = Len(input) + 1 /\ AllIn(input, Digit \cup Alpha \cup
            {"+", "-", "*", "%", "="})) => Show(result.val) = input

\* "-a*1+1" is Plus(Times(Negate(a), 1), 1)
PrecedenceNestingWitness ==
    /\ Parsed
    /\ input = <<"-", "a", "*", "1", "+", "1">>
    /\ IsOk(result)
    /\ result.val.op = "Plus"
    /\ result.val.l.op = "Times"
    /\ result.val.l.l = UnOp("Negate", Id(<<"a">>))

\* ------------------------------------------------------------ identifiers

MaxIdentPieces == 2

\* the reserved words as the specification lists them
ReservedNames ==
    { <<"i", "f">>, <<"e", "l", "s", "e">>, <<"t", "h", "e", "n">>, <<"i">>,
      <<"l", "e", "t">>, <<"p", "r", "i", "n", "t">>,
      <<"p", "r", "i", "n", "t", "l", "n">>, <<"w", "h", "i", "l", "e">>,
      <<"f", "n">>, <<"m", "u", "t">>, <<"b", "r", "e", "a", "k">>,
      <<"c", "o", "n", "t", "i", "n", "u", "e">>,
      <<"m", "a", "t", "r", "i", "x">>, <<"r", "e", "t", "u", "r", "n">>,
      <<"p", "i">>, <<"t", "a", "u">> }

IdentPieces ==
    ReservedNames \cup {<<"x">>, <<"N">>, <<"_">>, <<"'">>, <<"1">>, <<" ">>, <<"+">>}

InitIdent == Start(Strs(IdentPieces, MaxIdentPieces))

SpecIdent == InitIdent /\ [][Next]_vars

\* (letter | _) (letter | digit | _ | ')*
IsName(t) ==
    /\ t # <<>>
    /\ t[1] \in Alpha \cup {"_"}
    /\ AllIn(t, Alphanumeric \cup {"_", "'"})

\* the names an AST holds in its Id nodes
RECURSIVE Names(_)
Names(e) ==
    CASE e.tag = "Id"     -> {e.name}
      [] e.tag = "BinOp"  -> Names(e.l) \cup Names(e.r)
      [] e.tag = "UnOp"   -> Names(e.e)
      [] e.tag = "IfElse" -> Names(e.cond) \cup Names(e.then) \cup Names(e.else)
      [] OTHER            -> {}

\* C4: no Id node of an AST that expression returns carries a reserved word,
\* and identifier fails on exactly the reserved words: on a text that begins
\* with a name it matches the longest such name, unless that is reserved.
ReservedWordsExcluded ==
    /\ (Parsed /\ IsOk(result)) => Names(result.val) \cap ReservedNames = {}
    /\ (pc = "done" /\ entry = "identifier") =>
          LET ks == {k \in 1..Len(input) : IsName(SubSeq(input, 1, k))}
          IN  IF ks = {} THEN result = Error
              ELSE LET k == CHOOSE m \in ks : \A n \in ks : n <= m
                       name == SubSeq(input, 1, k)
                   IN  IF name \in ReservedNames THEN result = Error
                       ELSE result = Ok(k + 1, name)

\* identifier has refused "pi" and expression has accepted "pi'" as a name
ReservedWordsExcludedWitness ==
    \/ /\ pc = "done" /\ entry = "identifier"
       /\ input = <<"p", "i">>
       /\ result = Error
    \/ /\ Parsed
       /\ IsOk(result)
       /\ result.val = Id(<<"p", "i", "'">>)

\* ------------------------------------------------------------ conditionals

MaxTerms == 2

KwIf == <<"i", "f">>

KwThen == <<"t", "h", "e", "n">>

KwElse == <<"e", "l", "s", "e">>

\* if <e1> then <e2> else <e3>
Conditional(e1, e2, e3) ==
    KwIf \o <<" ">> \o e1 \o <<" ">> \o KwThen \o <<" ">> \o e2 \o <<" ">>
        \o KwElse \o <<" ">> \o e3

\* "if a==1 then b else c"
SmallCond == Conditional(<<"a", "=", "=", "1">>, <<"b">>, <<"c">>)

\* the parts: a literal or a conditional, or up to MaxTerms of them joined by '+'
CondParts == Chains({<<"1">>, SmallCond}, {<<"+">>}, MaxTerms - 1)

\* expression parses the whole of t
FullParse(t) ==
    LET r == Call("expression", t, 1, {}) IN IsOk(r) /\ r.pos = Len(t) + 1

Tree(t) == Call("expression", t, 1, {}).val

CondInputs == {Conditional(e1, e2, e3) : e1, e2, e3 \in CondParts}

InitCond == Start(CondInputs)

SpecCond == InitCond /\ [][Next]_vars

IsPrefix(t, u) == Len(t) <= Len(u) /\ SubSeq(u, 1, Len(t)) = t

\* C5: if <e1> then <e2> else <e3>, each part a whole expression, parses to
\* IfElse of the three parts' trees, the else part reaching to the end.
ConditionalParses ==
    Parsed =>
      \A e1 \in CondParts :
        IsPrefix(KwIf \o <<" ">> \o e1 \o <<" ">> \o KwThen, input) =>
          \A e2 \in CondParts :
            IsPrefix(KwIf \o <<" ">> \o e1 \o <<" ">> \o KwThen \o <<" ">> \o e2
                        \o <<" ">> \o KwElse, input) =>
              \A e3 \in CondParts :
                input = Conditional(e1, e2, e3) =>
                  /\ FullParse(e1) /\ FullParse(e2) /\ FullParse(e3)
                  /\ result = Ok(Len(input) + 1,
                                 IfElse(Tree(e1), Tree(e2), Tree(e3)))

\* a conditional whose condition is a conditional and whose else part is a sum
ConditionalParsesWitness ==
    /\ Parsed
    /\ input = Conditional(SmallCond, <<"1">>, <<"1", "+", "1">>)
    /\ IsOk(result)
    /\ result.val.tag = "IfElse"
    /\ result.val.cond.tag = "IfElse"
    /\ result.val.else.tag = "BinOp"

\* ------------------------------------------------------------ whitespace

MaxWsPieces == 4

WsPieces ==
    {<<"a">>, <<"1">>, <<"+">>, <<"^">>, <<" ">>, <<"(">>, <<")">>, <<"|">>}

InitWs == Start(Strs(WsPieces, MaxWsPieces))

SpecWs == InitWs /\ [][Next]_vars

StripWs(t) == SelectSeq(t, LAMBDA c : c \notin Space)

\* the characters words are made of
WordChar == Alphanumeric \cup {"_", "'"}

\* a and b, written next to each other, read as one token or as its beginning
Glued(a, b) ==
    \/ a \in WordChar /\ b \in WordChar
    \/ a \in {"=", "!"} /\ b = "="

\* every run of blanks of t is at the start, at the end or between two tokens:
\* none splits what reads as one token once the blanks are removed
BlanksBetweenTokens(t) ==
    \A j, k \in 1..Len(t) :
        (j + 1 < k /\ (\A m \in (j + 1)..(k - 1) : t[m] \in Space))
            => ~Glued(t[j], t[k])

\* C6: a text and the same text without its blanks, the blanks being at the
\* start, at the end or between tokens, parse alike: both fail, or both succeed
\* with one tree and with remainders that are equal up to blanks.
WhitespaceInsensitive ==
    (Parsed /\ BlanksBetweenTokens(input)) =>
        LET bare == Call("expression", StripWs(input), 1, {})
        IN  /\ result.st = bare.st
            /\ IsOk(result) =>
                  /\ result.val = bare.val
                  /\ StripWs(Rest(input, result.pos))
                        = Rest(StripWs(input), bare.pos)

\* "a^ ^" has stopped at the blank, one wrapper made and the second '^' left
WhitespaceBetweenMarks ==
    /\ Parsed
    /\ input = <<"a", "^", " ", "^">>
    /\ IsOk(result)
    /\ result.pos = 4
    /\ result.val.e = Id(<<"a">>)
    /\ Call("expression", <<"a", "^", "^">>, 1, {}).pos = 4
    /\ Call("expression", <<"a", "^", "^">>, 1, {}).val.e.e = Id(<<"a">>)

\* ------------------------------------------------------------ conjugate marks

MaxMarks == 3

One == Value(ComplexInt(I64(1), I64(0)))

\* atoms, each with the tree it stands for
ConjAtoms ==
    { [text |-> <<"1">>,           tree |-> One],
      [text |-> <<"0">>,           tree |-> Value(ComplexInt(I64(0), I64(0)))],
      [text |-> <<"i">>,           tree |-> Value(ComplexInt(I64(0), I64(1)))],
      [text |-> <<"1", "i">>,      tree |-> Value(ComplexInt(I64(0), I64(1)))],
      [text |-> <<"a">>,           tree |-> Id(<<"a">>)],
      [text |-> <<"b", "'">>,      tree |-> Id(<<"b", "'">>)],
      [text |-> <<"(", "a", ")">>, tree |-> Id(<<"a">>)],
      [text |-> <<"(", "1", ")">>, tree |-> One],
      [text |-> <<"|", "a", "|">>, tree |-> UnOp("Modulus", Id(<<"a">>))],
      [text |-> <<"|", "1", "|">>, tree |-> UnOp("Modulus", One)] }

Marks(k) == [j \in 1..k |-> "^"]

ConjInputs == {a.text \o Marks(k) : a \in ConjAtoms, k \in 0..MaxMarks}

InitConj == Start(ConjInputs)

SpecConj == InitConj /\ [][Next]_vars

\* e inside k unary nodes of operator op
RECURSIVE Wrapped(_, _, _)
Wrapped(op, e, k) == IF k = 0 THEN e ELSE UnOp(op, Wrapped(op, e, k - 1))

\* C7: an atom followed by k '^' marks parses, whole, to the atom's tree inside
\* exactly k unary nodes whose operator is Conjugate; with k = 0 to the atom's
\* tree itself.
ConjugateMarksWrap ==
    Parsed =>
        \A a \in ConjAtoms, k \in 0..MaxMarks :
            input = a.text \o Marks(k) =>
                result = Ok(Len(input) + 1, Wrapped("Conjugate", a.tree, k))

\* "a^^" has been parsed to the very tree of "--a"
ConjugateMarksNegate ==
    /\ Parsed
    /\ input = <<"a", "^", "^">>
    /\ result = Ok(4, Wrapped("Negate", Id(<<"a">>), 2))
    /\ Call("expression", <<"-", "-", "a">>, 1, {}).val = result.val

\* ------------------------------------------------------------ remainders

MaxRem == 3

RemPieces ==
    {<<"1">>, <<"a">>, <<"p">>, <<"i">>, <<"_">>, <<"+">>, <<"-">>, <<"*">>,
     <<"=", "=">>, <<"(">>, <<")">>, <<" ">>}

InitRem == Start(Strs(RemPieces, MaxRem))

SpecRem == InitRem /\ [][Next]_vars

Prefix(t, k) == SubSeq(t, 1, k)

\* the operator tokens of the three binary levels
OpTokens ==
    {<<"*">>, <<"/">>, <<"%">>, <<"+">>, <<"-">>, <<"=", "=">>, <<"!", "=">>}

\* an operator token starts at k + 1 and no expression starts after it
DanglingOperator(t, k) ==
    \E o \in OpTokens :
        /\ IsPrefix(o, Rest(t, k + 1))
        /\ Call("expression", Rest(t, k + Len(o) + 1), 1, {}).st = "Error"

\* C8 as it is stated: whenever a non-empty prefix of the input is a whole
\* expression the parse succeeds, with a remainder that is a suffix of the
\* input; and an operator without an operand after it is left, with what
\* follows, in the remainder, the result being the tree of what precedes it.
PrefixParseSucceeds ==
    Parsed =>
        \A k \in 1..Len(input) :
            FullParse(Prefix(input, k)) =>
                /\ IsOk(result)
                /\ result.pos \in 1..(Len(input) + 1)
                /\ DanglingOperator(input, k) =>
                      result = Ok(k + 1, Tree(Prefix(input, k)))

\* C8, amended: a success leaves a suffix of the input; when a prefix is a
\* whole expression and ends where a token ends (the input ends there, or the
\* characters on the two sides of the cut do not read as one token), the parse
\* succeeds and consumes at least that prefix; and when an operator token with
\* no expression after it follows such a prefix, the result is the prefix's
\* tree and the remainder begins at the operator.
PrefixAtTokenEndSucceeds ==
    Parsed =>
        /\ IsOk(result) => result.pos \in 1..(Len(input) + 1)
        /\ \A k \in 1..Len(input) :
              FullParse(Prefix(input, k)) =>
                  /\ (k = Len(input) \/ ~Glued(input[k], input[k + 1])) =>
                        IsOk(result) /\ result.pos >= k + 1
                  /\ DanglingOperator(input, k) =>
                        result = Ok(k + 1, Tree(Prefix(input, k)))

\* "1==)" has given the tree of "1" and left "==)"
PrefixAtTokenEndWitness ==
    /\ Parsed
    /\ input = <<"1", "=", "=", ")">>
    /\ result = Ok(2, One)
    /\ DanglingOperator(input, 1)

\* ------------------------------------------------------------ termination

MaxNest == 3

NestAtoms == {<<>>, <<"1">>, <<"a">>}

\* x inside one more construct, whole or left open
Wraps(x) ==
    { <<"-">> \o x,
      <<"(">> \o x \o <<")">>,
      <<"(">> \o x,
      <<"|">> \o x \o <<"|">>,
      <<"|">> \o x,
      x \o <<"^">>,
      <<" ">> \o x,
      <<"1", "*">> \o x,
      x \o <<"+", "1">>,
      Conditional(x, <<"1">>, <<"1">>),
      Conditional(<<"1">>, x, <<"1">>),
      Conditional(<<"1">>, <<"1">>, x) }

\* the atoms inside at most n constructs
RECURSIVE NestInputs(_)
NestInputs(n) ==
    IF n = 0 THEN NestAtoms
    ELSE LET inner == NestInputs(n - 1)
         IN  inner \cup UNION {Wraps(x) : x \in inner}

InitNest == Start(NestInputs(MaxNest))

SpecNest == InitNest /\ [][Next]_vars

\* C10: every call ends, with a success that leaves a suffix of the input or
\* with an ordinary failure: no grammar function is entered again at a position
\* it is already being evaluated at.
ParseTerminates ==
    pc = "done" =>
        \/ result.st = "Error"
        \/ result.st = "Ok" /\ result.pos \in 1..(Len(input) + 1)

\* "-(|1|)": factor and expression have each been entered again, further on
ParseTerminatesWitness ==
    /\ Parsed
    /\ input = <<"-", "(", "|", "1", "|", ")">>
    /\ result = Ok(7, UnOp("Negate", UnOp("Modulus", One)))

====
